---- MODULE Spec2Model ----
(***************************************************************************)
(* Recording session controller of speech-to-text-for-ubuntu.              *)
(*                                                                         *)
(*   Spec       the event loop of key_listener.main (key_listener.py) with *)
(*              the speech_to_text.py run it launches for each session     *)
(*   LogicSpec  the trigger state machine KeyListenerLogic that            *)
(*              test_key_logic.py exercises (Hold and DoubleTap keys)      *)
(***************************************************************************)
EXTENDS Integers, FiniteSets, Sequences, TLC

\* ------------------------------------------------------------------ bounds
MaxSessions == 2     \* capture processes launched in one run of main
MaxTime == 4         \* clock of the trigger logic, in quarters of a second
MaxCalls == 2        \* calls of on_start counted by the trigger logic
MaxRequests == 2     \* runs of transcribe_audio by the dispatch client
MaxConns == 2        \* connections accepted by the transcription server

\* --------------------------------------------------------------- constants
None == 0                       \* Python None for handles and timestamps
key_up == 0                     \* evdev KeyEvent.key_up
key_down == 1                   \* evdev KeyEvent.key_down
key_hold == 2                   \* evdev KeyEvent.key_hold (auto-repeat)
DOUBLE_TAP_THRESHOLD == 2       \* 0.5 s in quarters of a second
NoTime == 0 - 1                 \* no release timestamp recorded
NoKey == "None"                 \* no key owns a session

Keycodes == {"KEY_F16", "KEY_LEFTMETA", "KEY_LEFTCTRL", "KEY_A"}
Keystates == {key_up, key_down, key_hold}
\* what device.read_loop() yields: key events, and a report of another type
DeviceKeycodes == {"KEY_F16", "KEY_LEFTMETA", "KEY_A"}
DeviceEvents == {<<"EV_SYN", NoKey, key_up>>}
                \cup {<<"EV_KEY", k, st>> : k \in DeviceKeycodes, st \in Keystates}
Sessions == 1..MaxSessions

VARIABLES
    \* ---- key_listener.main
    pc,                 \* where main is: "read" in device.read_loop(), "wait" in
                        \* recording_process.wait, "verify", "stt" in
                        \* subprocess.run, "exited" after main returned
    recording_process,  \* None or the handle (session number) of the capture
    nsessions,          \* capture processes launched so far
    proc_state,         \* per capture process: "unborn", "running", "termsent",
                        \* "killed" (SIGKILL sent, not yet gone), "exited"
    stop_requested,     \* sessions whose capture was told to stop
    audio_file,         \* AUDIO_FILE: [st, by]; by = session that wrote it
    output_file,        \* OUTPUT_FILE: [st, by]; by = session whose text it holds
    typed_ok,           \* TYPE_SUCCESS_FILE exists
    aborted,            \* sessions that logged "No audio captured"
    dispatched,         \* sessions for which subprocess.run(speech_to_text) ran
    stt_failed,         \* sessions whose speech-to-text run failed
    delivered,          \* <<session, text owner>>: text put on the desktop
    exit_cause,         \* "none" or the exception that ended main
    last_event,         \* the last event main handled: <<type, keycode, keystate>>
    last_cmd,           \* what main did with it: "Start", "StartFailed", "Stop", "Ignore"
    \* ---- KeyListenerLogic
    recording,          \* KeyListenerLogic.recording
    active_key,         \* the key that owns the session, None when idle
    press_open,         \* per DoubleTap key: a press awaits its release
    last_release,       \* per DoubleTap key: timestamp of the release, None if none
    on_start,           \* calls of the on_start callback
    on_stop,            \* calls of the on_stop callback
    now,                \* timestamp of the last event
    lg_event,           \* the last event handled: <<keycode, value>>, at time now
    lg_cmd,             \* its result: "Start", "Stop", "Ignore"
    lg_tick,            \* parity of the number of events handled
    taps,               \* history of a double tap: [key, stage, rel, starts, stops]
    retap,              \* history of a late second press: [key, stage, rel]
    \* ---- speech_to_text.transcribe_audio (the dispatch client)
    socket_file,        \* /tmp/stt_server.sock exists
    c_pc,               \* "idle", "connect", "send", "recv", "local", "done"
    c_req,              \* number of the request being served
    c_connects,         \* sock.connect calls made for this request
    c_conn,             \* connections to the server established so far
    c_locals,           \* local WhisperModel runs made for this request
    c_io,               \* how the socket calls went: "none", "ok", "refused",
                        \* "timeout", "error"
    c_response,         \* the bytes read from the socket, as a response value
    c_server_result,    \* what _try_server_transcription returned: "unset",
                        \* "None", "Empty" ([]), "Text" ([text])
    c_out,              \* what transcribe_audio gave: "unset", "text", "empty",
                        \* "exit1" (sys.exit(1))
    c_out_from,         \* which path gave it: "none", "server", "local"
    \* ---- stt_server.py (the transcription server)
    s_pc,               \* main thread: "boot", "load", "bind", "chmod", "loop", "accept",
                        \* "finally", "exit", "stopped"
    shutdown_flag,      \* SHUTDOWN_FLAG is set
    naccepted,          \* connections accepted so far
    handler,            \* per connection: [st, req, resp] of its handle_client
    at_signal,          \* history: the handlers in flight when a signal came
    socket_kind,        \* the file at SOCKET_PATH: "absent", "stale" (left by an
                        \* earlier run), "bound" (this server's, as bind made
                        \* it), "open" (this server's, after chmod 0o666)
    stale_removed,      \* history: the startup cleanup removed a stale file
    model_loads,        \* WhisperModel objects built by load_model so far
    handler_model,      \* per connection: the model its handler was given
                        \* (the number of the load that built it), None if none
    second_pc           \* main thread of a second stt_server.py process on the
                        \* same SOCKET_PATH: "off", "load", "bind", "serving",
                        \* "stopped"

mainVars == <<pc, recording_process, nsessions, proc_state, stop_requested,
              audio_file, output_file, typed_ok, aborted, dispatched,
              stt_failed, delivered, exit_cause, last_event, last_cmd>>
logicVars == <<recording, active_key, press_open, last_release, on_start,
               on_stop, now, lg_event, lg_cmd, lg_tick, taps, retap>>
clientState == <<c_pc, c_req, c_connects, c_conn, c_locals, c_io, c_response,
                 c_server_result, c_out, c_out_from>>
clientVars == <<socket_file, clientState>>
serverVars == <<s_pc, shutdown_flag, naccepted, handler, at_signal,
                socket_kind, stale_removed, model_loads, handler_model>>
netVars == <<clientVars, serverVars, second_pc>>
vars == <<mainVars, logicVars, netVars>>

\* ============================================================ files in /tmp
FileStates == {"missing", "empty", "data"}
File(st, by) == [st |-> st, by |-> by]
NoFile == File("missing", None)

AudioCaptured_ExistsOnly(f) == f.st # "missing"

\* os.path.exists(AUDIO_FILE) and os.path.getsize(AUDIO_FILE) != 0
AudioCaptured(f) == f.st # "missing" /\ f.st # "empty"

\* ====================================================== key_listener.main
MainInit ==
    /\ pc = "read"
    /\ recording_process = None
    /\ nsessions = 0
    /\ proc_state = [s \in Sessions |-> "unborn"]
    /\ stop_requested = {}
    /\ audio_file \in {NoFile, File("data", None)}
    /\ output_file \in {NoFile, File("data", None)}
    /\ typed_ok \in BOOLEAN
    /\ aborted = {}
    /\ dispatched = {}
    /\ stt_failed = {}
    /\ delivered = {}
    /\ exit_cause = "none"
    /\ last_event = <<"EV_SYN", NoKey, key_up>>
    /\ last_cmd = "Ignore"

\* recording_process.terminate(): SIGTERM unless the process is already gone
Terminate(ps, s) ==
    IF ps[s] = "running" THEN [ps EXCEPT ![s] = "termsent"] ELSE ps

StartCondition_NoGuard(keycode, keystate) ==
    keycode = "KEY_F16" /\ keystate = key_down

StartCondition_AnyKeycode(keycode, keystate) ==
    keystate = key_down /\ recording_process = None

\* key_down of KEY_F16: the condition under which main starts a capture
StartCondition(keycode, keystate) ==
    keycode = "KEY_F16" /\ keystate = key_down /\ recording_process = None

StopCondition_AnyKey(keycode, keystate) ==
    keystate = key_up /\ recording_process # None

\* key_up of KEY_F16: the condition under which main stops the capture
StopCondition(keycode, keystate) ==
    keycode = "KEY_F16" /\ keystate = key_up /\ recording_process # None

Handled(etype, keycode, keystate, cmd) ==
    /\ last_event' = <<etype, keycode, keystate>>
    /\ last_cmd' = cmd

StartRecording_DropsHandle(etype, keycode, keystate) ==
    /\ nsessions < MaxSessions
    /\ nsessions' = nsessions + 1
    /\ recording_process' = None
    /\ proc_state' = [proc_state EXCEPT ![nsessions + 1] = "running"]
    /\ Handled(etype, keycode, keystate, "Start")
    /\ UNCHANGED <<pc, stop_requested, audio_file, output_file, typed_ok,
                   aborted, dispatched, stt_failed, delivered, exit_cause>>

\* subprocess.Popen(cmd, ...) succeeded: the capture runs
StartRecording(etype, keycode, keystate) ==
    /\ nsessions < MaxSessions
    /\ nsessions' = nsessions + 1
    /\ recording_process' = nsessions + 1
    /\ proc_state' = [proc_state EXCEPT ![nsessions + 1] = "running"]
    /\ Handled(etype, keycode, keystate, "Start")
    /\ UNCHANGED <<pc, stop_requested, audio_file, output_file, typed_ok,
                   aborted, dispatched, stt_failed, delivered, exit_cause>>

\* the launch raised: recording_process = None, then recording_process.pid
\* raises AttributeError, which leaves the read loop and ends main
StartFails(etype, keycode, keystate) ==
    /\ recording_process' = None
    /\ pc' = "exited"
    /\ exit_cause' = "AttributeError"
    /\ Handled(etype, keycode, keystate, "StartFailed")
    /\ UNCHANGED <<nsessions, proc_state, stop_requested, audio_file,
                   output_file, typed_ok, aborted, dispatched, stt_failed,
                   delivered>>

\* key up: terminate() is sent and main blocks in wait(timeout=5)
StopRecording(etype, keycode, keystate) ==
    /\ proc_state' = Terminate(proc_state, recording_process)
    /\ stop_requested' = stop_requested \cup {recording_process}
    /\ pc' = "wait"
    /\ Handled(etype, keycode, keystate, "Stop")
    /\ UNCHANGED <<recording_process, nsessions, audio_file, output_file,
                   typed_ok, aborted, dispatched, stt_failed, delivered,
                   exit_cause>>

IgnoreEvent(etype, keycode, keystate) ==
    /\ Handled(etype, keycode, keystate, "Ignore")
    /\ UNCHANGED <<pc, recording_process, nsessions, proc_state,
                   stop_requested, audio_file, output_file, typed_ok, aborted,
                   dispatched, stt_failed, delivered, exit_cause>>

HandleEvent_Unserialized(etype, keycode, keystate) ==
    /\ pc # "exited"
    /\ IF etype # "EV_KEY" \/ keystate = key_hold
       THEN IgnoreEvent(etype, keycode, keystate)
       ELSE IF keycode = "KEY_F16" /\ keystate = key_down
       THEN StartRecording(etype, keycode, keystate)
       ELSE IgnoreEvent(etype, keycode, keystate)
    /\ UNCHANGED <<logicVars, netVars>>

HandleEvent_Async(etype, keycode, keystate) ==
    /\ pc # "exited"
    /\ IF etype # "EV_KEY" \/ keystate = key_hold
       THEN IgnoreEvent(etype, keycode, keystate)
       ELSE IF StartCondition(keycode, keystate)
       THEN \E launch_ok \in BOOLEAN :
                IF launch_ok
                THEN StartRecording(etype, keycode, keystate)
                ELSE StartFails(etype, keycode, keystate)
       ELSE IF StopCondition(keycode, keystate)
       THEN StopRecording(etype, keycode, keystate)
       ELSE IgnoreEvent(etype, keycode, keystate)
    /\ UNCHANGED <<logicVars, netVars>>

HandleEvent_RepeatIsPress(etype, keycode, keystate) ==
    /\ pc = "read"
    /\ IF etype # "EV_KEY"
       THEN IgnoreEvent(etype, keycode, keystate)
       ELSE IF keycode = "KEY_F16" /\ keystate # key_up /\ recording_process = None
       THEN \E launch_ok \in BOOLEAN :
                IF launch_ok
                THEN StartRecording(etype, keycode, keystate)
                ELSE StartFails(etype, keycode, keystate)
       ELSE IF StopCondition(keycode, keystate)
       THEN StopRecording(etype, keycode, keystate)
       ELSE IgnoreEvent(etype, keycode, keystate)
    /\ UNCHANGED <<logicVars, netVars>>

\* one iteration of "for event in device.read_loop()" up to the first
\* blocking call
HandleEvent(etype, keycode, keystate) ==
    /\ pc = "read"
    /\ IF etype # "EV_KEY" \/ keystate = key_hold
       THEN IgnoreEvent(etype, keycode, keystate)
       ELSE IF StartCondition(keycode, keystate)
       THEN \E launch_ok \in BOOLEAN :
                IF launch_ok
                THEN StartRecording(etype, keycode, keystate)
                ELSE StartFails(etype, keycode, keystate)
       ELSE IF StopCondition(keycode, keystate)
       THEN StopRecording(etype, keycode, keystate)
       ELSE IgnoreEvent(etype, keycode, keystate)
    /\ UNCHANGED <<logicVars, netVars>>

ReadEvent ==
    \E ev \in DeviceEvents : HandleEvent(ev[1], ev[2], ev[3])

WaitReturn_AlwaysKills(in_time) ==
    /\ pc = "wait"
    /\ LET s == recording_process IN
        /\ proc_state' = [proc_state EXCEPT ![s] = "killed"]
    /\ pc' = "verify"
    /\ UNCHANGED <<recording_process, nsessions, stop_requested, audio_file,
                   output_file, typed_ok, aborted, dispatched, stt_failed,
                   delivered, exit_cause, last_event, last_cmd>>
    /\ UNCHANGED <<logicVars, netVars>>

\* recording_process.wait(timeout=5) returns, or raises TimeoutExpired and
\* the handler sends kill() without waiting again
WaitReturn(in_time) ==
    /\ pc = "wait"
    /\ LET s == recording_process IN
        /\ proc_state[s] = "exited" => in_time
        /\ proc_state' = [proc_state EXCEPT ![s] =
                             IF in_time THEN "exited" ELSE "killed"]
    /\ pc' = "verify"
    /\ UNCHANGED <<recording_process, nsessions, stop_requested, audio_file,
                   output_file, typed_ok, aborted, dispatched, stt_failed,
                   delivered, exit_cause, last_event, last_cmd>>
    /\ UNCHANGED <<logicVars, netVars>>

CaptureWait == \E in_time \in BOOLEAN : WaitReturn(in_time)

VerifyAudio_KeepsHandle ==
    /\ pc = "verify"
    /\ IF AudioCaptured(audio_file)
       THEN /\ pc' = "stt"
            /\ dispatched' = dispatched \cup {recording_process}
            /\ UNCHANGED <<recording_process, aborted>>
       ELSE /\ pc' = "read"
            /\ aborted' = aborted \cup {recording_process}
            /\ UNCHANGED <<recording_process, dispatched>>
    /\ UNCHANGED <<nsessions, proc_state, stop_requested, audio_file,
                   output_file, typed_ok, stt_failed, delivered, exit_cause,
                   last_event, last_cmd>>
    /\ UNCHANGED <<logicVars, netVars>>

\* "Verify that audio was actually captured": on a missing or empty file the
\* session is dropped, otherwise subprocess.run(speech_to_text.py) is called
VerifyAudio ==
    /\ pc = "verify"
    /\ IF AudioCaptured(audio_file)
       THEN /\ pc' = "stt"
            /\ dispatched' = dispatched \cup {recording_process}
            /\ UNCHANGED <<recording_process, aborted>>
       ELSE /\ pc' = "read"
            /\ aborted' = aborted \cup {recording_process}
            /\ recording_process' = None
            /\ UNCHANGED dispatched
    /\ UNCHANGED <<nsessions, proc_state, stop_requested, audio_file,
                   output_file, typed_ok, stt_failed, delivered, exit_cause,
                   last_event, last_cmd>>
    /\ UNCHANGED <<logicVars, netVars>>

\* ------------------------------------------------- speech_to_text.main
SttResults == {"fail", "empty", "text"}
UserDeliveries == {"none", "clipboard", "typed"}

\* what the environment decides in one run: whether the interpreter can be
\* launched, whether the audio loads, what transcribe_audio yields, whether
\* OUTPUT_FILE can be written, how paste_text / type_text fare, whether the
\* marker file can be written, whether ydotool is installed and types as root
SttInputs ==
    [run_ok : BOOLEAN, load_ok : BOOLEAN, result : SttResults,
     write_ok : BOOLEAN, user_delivery : UserDeliveries, mark_ok : BOOLEAN,
     has_ydotool : BOOLEAN, root_type_ok : BOOLEAN]

\* exit status of speech_to_text.py: load_audio and transcribe_audio end the
\* process with sys.exit(1) on failure
SttExitCode(load_ok, result) ==
    IF ~load_ok \/ result = "fail" THEN 1 ELSE 0

\* full_text is empty: main returns before anything is written or delivered
SttHasText(load_ok, result) ==
    SttExitCode(load_ok, result) = 0 /\ result = "text"

\* write_output_file(cleaned_text)
SttOutputFile(has_text, write_ok) ==
    IF has_text /\ write_ok THEN File("data", audio_file.by) ELSE output_file

\* paste_text / type_text as the user: what reached the desktop
SttUserDelivered(s, has_text, user_delivery) ==
    IF has_text /\ user_delivery # "none" THEN {<<s, audio_file.by>>} ELSE {}

\* _mark_type_success() after type_text typed the text
SttTypedOk(has_text, user_delivery, mark_ok) ==
    typed_ok \/ (has_text /\ user_delivery = "typed" /\ mark_ok)

\* ------------------------------- key_listener.main after subprocess.run
\* "try typing as root using the file output": text read from OUTPUT_FILE is
\* typed unless the marker file says the user-space method already typed it
RootTyped(s, has_ydotool, out, marker, root_type_ok) ==
    IF has_ydotool /\ out.st # "missing" /\ out.st = "data" /\ ~marker
          /\ root_type_ok
    THEN {<<s, out.by>>}
    ELSE {}

RootTypingRuns_Always(ok) == TRUE

\* the root typing block follows subprocess.run inside the same try: it is
\* skipped when run raised (non-zero exit with check=True, or no launch)
RootTypingRuns(ok) == ok

\* "Clean the marker file for next run"
MarkerAfter(has_ydotool, out, marker) ==
    IF has_ydotool /\ out.st # "missing" THEN FALSE ELSE marker

RunSpeechToText_Redispatch(in) ==
    /\ pc = "stt"
    /\ LET s == recording_process
           ok == in.run_ok /\ SttExitCode(in.load_ok, in.result) = 0
           has_text == in.run_ok /\ SttHasText(in.load_ok, in.result)
           out == SttOutputFile(has_text, in.write_ok)
           marker == SttTypedOk(has_text, in.user_delivery, in.mark_ok)
       IN  /\ output_file' = out
           /\ delivered' = delivered
                           \cup SttUserDelivered(s, has_text, in.user_delivery)
                           \cup IF RootTypingRuns(ok)
                                THEN RootTyped(s, in.has_ydotool, out, marker,
                                               in.root_type_ok)
                                ELSE {}
           /\ typed_ok' = IF RootTypingRuns(ok)
                          THEN MarkerAfter(in.has_ydotool, out, marker)
                          ELSE marker
           /\ stt_failed' = IF ok THEN stt_failed ELSE stt_failed \cup {s}
           /\ IF ok
              THEN recording_process' = None /\ pc' = "read"
              ELSE recording_process' = s /\ pc' = "verify"
    /\ UNCHANGED <<nsessions, proc_state, stop_requested, audio_file, aborted,
                   dispatched, exit_cause, last_event, last_cmd>>
    /\ UNCHANGED <<logicVars, netVars>>

\* subprocess.run([PYTHON_VENV, SPEECHTOTEXT_SCRIPT, AUDIO_FILE], check=True)
\* returns or raises, the root typing block runs after a zero exit, and the
\* handler ends with recording_process = None
RunSpeechToText(in) ==
    /\ pc = "stt"
    /\ LET s == recording_process
           ok == in.run_ok /\ SttExitCode(in.load_ok, in.result) = 0
           has_text == in.run_ok /\ SttHasText(in.load_ok, in.result)
           out == SttOutputFile(has_text, in.write_ok)
           marker == SttTypedOk(has_text, in.user_delivery, in.mark_ok)
       IN  /\ output_file' = out
           /\ delivered' = delivered
                           \cup SttUserDelivered(s, has_text, in.user_delivery)
                           \cup IF RootTypingRuns(ok)
                                THEN RootTyped(s, in.has_ydotool, out, marker,
                                               in.root_type_ok)
                                ELSE {}
           /\ typed_ok' = IF RootTypingRuns(ok)
                          THEN MarkerAfter(in.has_ydotool, out, marker)
                          ELSE marker
           /\ stt_failed' = IF ok THEN stt_failed ELSE stt_failed \cup {s}
    /\ recording_process' = None
    /\ pc' = "read"
    /\ UNCHANGED <<nsessions, proc_state, stop_requested, audio_file, aborted,
                   dispatched, exit_cause, last_event, last_cmd>>
    /\ UNCHANGED <<logicVars, netVars>>

SpeechToText == \E in \in SttInputs : RunSpeechToText(in)

\* ------------------------------------------------ the capture process
\* pw-record / arecord creates AUDIO_FILE and writes samples into it
CaptureWrites(s, st) ==
    /\ proc_state[s] \in {"running", "termsent"}
    /\ audio_file' = File(st, s)
    /\ UNCHANGED <<pc, recording_process, nsessions, proc_state,
                   stop_requested, output_file, typed_ok, aborted, dispatched,
                   stt_failed, delivered, exit_cause, last_event, last_cmd>>
    /\ UNCHANGED <<logicVars, netVars>>

CaptureWrite == \E s \in Sessions, st \in {"empty", "data"} : CaptureWrites(s, st)

\* the capture process ends: on its own, on SIGTERM or on SIGKILL
CaptureExits(s) ==
    /\ proc_state[s] \in {"running", "termsent", "killed"}
    /\ proc_state' = [proc_state EXCEPT ![s] = "exited"]
    /\ UNCHANGED <<pc, recording_process, nsessions, stop_requested,
                   audio_file, output_file, typed_ok, aborted, dispatched,
                   stt_failed, delivered, exit_cause, last_event, last_cmd>>
    /\ UNCHANGED <<logicVars, netVars>>

CaptureExit == \E s \in Sessions : CaptureExits(s)

\* ------------------------------------------------------- the ways out
\* except KeyboardInterrupt: the capture, if any, is told to terminate
KeyboardInterrupt ==
    /\ pc # "exited"
    /\ pc' = "exited"
    /\ exit_cause' = "KeyboardInterrupt"
    /\ IF recording_process # None
       THEN /\ proc_state' = Terminate(proc_state, recording_process)
            /\ stop_requested' = stop_requested \cup {recording_process}
       ELSE UNCHANGED <<proc_state, stop_requested>>
    /\ UNCHANGED <<recording_process, nsessions, audio_file, output_file,
                   typed_ok, aborted, dispatched, stt_failed, delivered,
                   last_event, last_cmd>>
    /\ UNCHANGED <<logicVars, netVars>>

\* except Exception: device.read_loop() raised (the device went away)
ReadLoopError ==
    /\ pc = "read"
    /\ pc' = "exited"
    /\ exit_cause' = "OSError"
    /\ UNCHANGED <<recording_process, nsessions, proc_state, stop_requested,
                   audio_file, output_file, typed_ok, aborted, dispatched,
                   stt_failed, delivered, last_event, last_cmd>>
    /\ UNCHANGED <<logicVars, netVars>>

\* ======================================================= KeyListenerLogic
HoldKeys == {"KEY_F16"}
DoubleTapKeys == {"KEY_LEFTMETA", "KEY_LEFTCTRL"}

Policy_AllHold(keycode) ==
    IF keycode \in HoldKeys \cup DoubleTapKeys THEN "Hold" ELSE "Unregistered"

Policy(keycode) ==
    IF keycode \in HoldKeys THEN "Hold"
    ELSE IF keycode \in DoubleTapKeys THEN "DoubleTap"
    ELSE "Unregistered"

NoTaps == [key |-> NoKey, stage |-> 0, rel |-> NoTime, starts |-> 0, stops |-> 0]

NoRetap == [key |-> NoKey, stage |-> 0, rel |-> NoTime]

LogicInit ==
    /\ recording = FALSE
    /\ active_key = NoKey
    /\ press_open = [k \in DoubleTapKeys |-> FALSE]
    /\ last_release = [k \in DoubleTapKeys |-> NoTime]
    /\ on_start = 0
    /\ on_stop = 0
    /\ now = 0
    /\ lg_event = <<"KEY_A", key_hold>>
    /\ lg_cmd = "Ignore"
    /\ lg_tick = 0
    /\ taps = NoTaps
    /\ retap = NoRetap

\* the second press of a DoubleTap key activates when it comes no later than
\* the threshold after the recorded release
WithinThreshold_Strict(release, timestamp) ==
    release # NoTime /\ timestamp - release < DOUBLE_TAP_THRESHOLD

WithinThreshold_AnyGap(release, timestamp) ==
    release # NoTime

WithinThreshold(release, timestamp) ==
    release # NoTime /\ timestamp - release <= DOUBLE_TAP_THRESHOLD

\* while recording, only the release of the key that owns the session stops it
StopsSession_OnPress(keycode, value) ==
    keycode = active_key /\ value = key_down

StopsSession(keycode, value) ==
    keycode = active_key /\ value = key_up

\* Start: on_start() is called and the key owns the session
EmitStart(keycode) ==
    /\ on_start < MaxCalls
    /\ on_start' = on_start + 1
    /\ recording' = TRUE
    /\ active_key' = keycode
    /\ lg_cmd' = "Start"
    /\ UNCHANGED on_stop

\* Stop: on_stop() is called and the logic is idle again
EmitStop ==
    /\ on_stop' = on_stop + 1
    /\ recording' = FALSE
    /\ active_key' = NoKey
    /\ lg_cmd' = "Stop"
    /\ UNCHANGED on_start

Ignore ==
    /\ lg_cmd' = "Ignore"
    /\ UNCHANGED <<recording, active_key, on_start, on_stop>>

\* History of the events handled in a row for one DoubleTap key, beginning
\* with a press that found the logic idle and no release recorded for the key:
\*   stage 1  that press            stage 2  its release, at time rel
\*   stage 3  the second press      stage 4  other events while the session
\*   stage 5  the release of the second press       the second press started
\*                                                  is recording
\* starts and stops are the callback counts before the first press.
TapsAfter(keycode, value, timestamp) ==
    IF taps.stage \in {3, 4} /\ recording /\ active_key = taps.key
    THEN IF keycode = taps.key /\ value = key_up
         THEN [taps EXCEPT !.stage = 5]
         ELSE [taps EXCEPT !.stage = 4]
    ELSE IF taps.stage = 2 /\ keycode = taps.key /\ value = key_down
    THEN [taps EXCEPT !.stage = 3]
    ELSE IF taps.stage = 1 /\ keycode = taps.key /\ value = key_up
    THEN [taps EXCEPT !.stage = 2, !.rel = timestamp]
    ELSE IF /\ value = key_down /\ keycode \in DoubleTapKeys
            /\ ~recording /\ last_release[keycode] = NoTime
    THEN [key |-> keycode, stage |-> 1, rel |-> NoTime,
          starts |-> on_start, stops |-> on_stop]
    ELSE NoTaps

\* History of the events handled in a row for one DoubleTap key, beginning
\* with a press that found the logic idle and a release of the key recorded
\* longer ago than the threshold (a late second press):
\*   stage 1  that press     stage 2  its release, at time rel
\*   stage 3  the press that follows
RetapAfter(keycode, value, timestamp) ==
    IF retap.stage = 2 /\ keycode = retap.key /\ value = key_down /\ ~recording
    THEN [retap EXCEPT !.stage = 3]
    ELSE IF retap.stage = 1 /\ keycode = retap.key /\ value = key_up /\ ~recording
    THEN [retap EXCEPT !.stage = 2, !.rel = timestamp]
    ELSE IF /\ value = key_down /\ keycode \in DoubleTapKeys /\ ~recording
            /\ last_release[keycode] # NoTime
            /\ timestamp - last_release[keycode] > DOUBLE_TAP_THRESHOLD
    THEN [key |-> keycode, stage |-> 1, rel |-> NoTime]
    ELSE NoRetap

handle_event_LatePressDropped(keycode, value, timestamp) ==
    /\ now' = timestamp
    /\ lg_event' = <<keycode, value>>
    /\ lg_tick' = 1 - lg_tick
    /\ taps' = TapsAfter(keycode, value, timestamp)
    /\ retap' = RetapAfter(keycode, value, timestamp)
    /\ IF value = key_hold
       THEN Ignore /\ UNCHANGED <<press_open, last_release>>
       ELSE IF recording
       THEN IF StopsSession(keycode, value)
            THEN EmitStop /\ UNCHANGED <<press_open, last_release>>
            ELSE Ignore /\ UNCHANGED <<press_open, last_release>>
       ELSE IF Policy(keycode) = "Hold"
       THEN IF value = key_down
            THEN EmitStart(keycode) /\ UNCHANGED <<press_open, last_release>>
            ELSE Ignore /\ UNCHANGED <<press_open, last_release>>
       ELSE IF Policy(keycode) = "DoubleTap"
       THEN IF value = key_down
            THEN IF WithinThreshold(last_release[keycode], timestamp)
                 THEN /\ EmitStart(keycode)
                      /\ last_release' = [last_release EXCEPT ![keycode] = NoTime]
                      /\ UNCHANGED press_open
                 ELSE /\ Ignore
                      /\ press_open' = [press_open EXCEPT ![keycode] =
                                            last_release[keycode] = NoTime]
                      /\ UNCHANGED last_release
            ELSE IF press_open[keycode]
                 THEN /\ Ignore
                      /\ last_release' = [last_release EXCEPT ![keycode] = timestamp]
                      /\ press_open' = [press_open EXCEPT ![keycode] = FALSE]
                 ELSE Ignore /\ UNCHANGED <<press_open, last_release>>
       ELSE Ignore /\ UNCHANGED <<press_open, last_release>>
    /\ UNCHANGED <<mainVars, netVars>>

handle_event_TracksWhileRecording(keycode, value, timestamp) ==
    /\ now' = timestamp
    /\ lg_event' = <<keycode, value>>
    /\ lg_tick' = 1 - lg_tick
    /\ taps' = TapsAfter(keycode, value, timestamp)
    /\ retap' = RetapAfter(keycode, value, timestamp)
    /\ IF value = key_hold
       THEN Ignore /\ UNCHANGED <<press_open, last_release>>
       ELSE IF recording
       THEN IF StopsSession(keycode, value)
            THEN EmitStop /\ UNCHANGED <<press_open, last_release>>
            ELSE IF Policy(keycode) = "DoubleTap" /\ value = key_down
            THEN /\ Ignore
                 /\ press_open' = [press_open EXCEPT ![keycode] = TRUE]
                 /\ UNCHANGED last_release
            ELSE IF Policy(keycode) = "DoubleTap" /\ press_open[keycode]
            THEN /\ Ignore
                 /\ last_release' = [last_release EXCEPT ![keycode] = timestamp]
                 /\ press_open' = [press_open EXCEPT ![keycode] = FALSE]
            ELSE Ignore /\ UNCHANGED <<press_open, last_release>>
       ELSE IF Policy(keycode) = "Hold"
       THEN IF value = key_down
            THEN EmitStart(keycode) /\ UNCHANGED <<press_open, last_release>>
            ELSE Ignore /\ UNCHANGED <<press_open, last_release>>
       ELSE IF Policy(keycode) = "DoubleTap"
       THEN IF value = key_down
            THEN IF WithinThreshold(last_release[keycode], timestamp)
                 THEN /\ EmitStart(keycode)
                      /\ last_release' = [last_release EXCEPT ![keycode] = NoTime]
                      /\ UNCHANGED press_open
                 ELSE /\ Ignore
                      /\ press_open' = [press_open EXCEPT ![keycode] = TRUE]
                      /\ UNCHANGED last_release
            ELSE IF press_open[keycode]
                 THEN /\ Ignore
                      /\ last_release' = [last_release EXCEPT ![keycode] = timestamp]
                      /\ press_open' = [press_open EXCEPT ![keycode] = FALSE]
                 ELSE Ignore /\ UNCHANGED <<press_open, last_release>>
       ELSE Ignore /\ UNCHANGED <<press_open, last_release>>
    /\ UNCHANGED <<mainVars, netVars>>

\* KeyListenerLogic.handle_event(keycode, value, timestamp)
handle_event(keycode, value, timestamp) ==
    /\ now' = timestamp
    /\ lg_event' = <<keycode, value>>
    /\ lg_tick' = 1 - lg_tick
    /\ taps' = TapsAfter(keycode, value, timestamp)
    /\ retap' = RetapAfter(keycode, value, timestamp)
    /\ IF value = key_hold
       THEN Ignore /\ UNCHANGED <<press_open, last_release>>
       ELSE IF recording
       THEN IF StopsSession(keycode, value)
            THEN EmitStop /\ UNCHANGED <<press_open, last_release>>
            ELSE Ignore /\ UNCHANGED <<press_open, last_release>>
       ELSE IF Policy(keycode) = "Hold"
       THEN IF value = key_down
            THEN EmitStart(keycode) /\ UNCHANGED <<press_open, last_release>>
            ELSE Ignore /\ UNCHANGED <<press_open, last_release>>
       ELSE IF Policy(keycode) = "DoubleTap"
       THEN IF value = key_down
            THEN IF WithinThreshold(last_release[keycode], timestamp)
                 THEN /\ EmitStart(keycode)
                      /\ last_release' = [last_release EXCEPT ![keycode] = NoTime]
                      /\ UNCHANGED press_open
                 ELSE /\ Ignore
                      /\ press_open' = [press_open EXCEPT ![keycode] = TRUE]
                      /\ UNCHANGED last_release
            ELSE IF press_open[keycode]
                 THEN /\ Ignore
                      /\ last_release' = [last_release EXCEPT ![keycode] = timestamp]
                      /\ press_open' = [press_open EXCEPT ![keycode] = FALSE]
                 ELSE Ignore /\ UNCHANGED <<press_open, last_release>>
       ELSE Ignore /\ UNCHANGED <<press_open, last_release>>
    /\ UNCHANGED <<mainVars, netVars>>

KeyEvent ==
    \E keycode \in Keycodes, value \in Keystates, timestamp \in now..MaxTime :
        handle_event(keycode, value, timestamp)


\* ================================= speech_to_text.py: the dispatch client
\* What the client can read from the socket before EOF or a newline: nothing,
\* bytes that are not JSON, JSON that is not an object, or a JSON object with
\* or without an "error" key and with a "text" that is absent, "" or words.
ResponseKinds == {"nodata", "garbage", "list", "number", "object"}
TextFields == {"absent", "empty", "words"}
Response(kind, error, text) == [kind |-> kind, error |-> error, text |-> text]
NoResponse == Response("unread", FALSE, "absent")
Responses ==
    {Response(k, FALSE, "absent") : k \in ResponseKinds \ {"object"}}
    \cup {Response("object", e, t) : e \in BOOLEAN, t \in TextFields}

TryParse_NoDataIsEmpty(resp) ==
    IF resp.kind = "nodata" THEN "Empty"
    ELSE IF resp.kind \in {"garbage", "list", "number"} THEN "None"
    ELSE IF resp.error THEN "None"
    ELSE IF resp.text = "words" THEN "Text"
    ELSE "Empty"

TryParse_NonObjectIsEmpty(resp) ==
    IF resp.kind \in {"nodata", "garbage"} THEN "None"
    ELSE IF resp.kind \in {"list", "number"} THEN "Empty"
    ELSE IF resp.error THEN "None"
    ELSE IF resp.text = "words" THEN "Text"
    ELSE "Empty"

TryParse_ErrorIsEmpty(resp) ==
    IF resp.kind \in {"nodata", "garbage", "list", "number"} THEN "None"
    ELSE IF resp.error THEN "Empty"
    ELSE IF resp.text = "words" THEN "Text"
    ELSE "Empty"

TryParse_EmptyIsNone(resp) ==
    IF resp.kind \in {"nodata", "garbage", "list", "number"} THEN "None"
    ELSE IF resp.error THEN "None"
    ELSE IF resp.text = "words" THEN "Text"
    ELSE "None"

\* _try_server_transcription after the receive loop: no data gives None;
\* json.loads raises on bytes that are not JSON, and response.get raises on
\* JSON that is not an object (both caught: None); an "error" key gives None;
\* a non-empty text gives [text], anything else []
TryParse(resp) ==
    IF resp.kind = "nodata" THEN "None"
    ELSE IF resp.kind = "garbage" THEN "None"
    ELSE IF resp.kind \in {"list", "number"} THEN "None"
    ELSE IF resp.error THEN "None"
    ELSE IF resp.text = "words" THEN "Text"
    ELSE "Empty"

ClientInit ==
    /\ socket_file = FALSE
    /\ c_pc = "idle"
    /\ c_req = 0
    /\ c_connects = 0
    /\ c_conn = 0
    /\ c_locals = 0
    /\ c_io = "none"
    /\ c_response = NoResponse
    /\ c_server_result = "unset"
    /\ c_out = "unset"
    /\ c_out_from = "none"

ClientFrame == UNCHANGED <<mainVars, logicVars, serverVars, second_pc>>

\* server_result is None: "Falling back to local model (server unavailable)"
FallBack ==
    /\ c_server_result' = "None"
    /\ c_pc' = "local"
    /\ UNCHANGED <<c_out, c_out_from, c_locals>>

ClientStart_NoExistsCheck ==
    /\ c_pc = "idle"
    /\ c_req < MaxRequests
    /\ c_req' = c_req + 1
    /\ c_connects' = 0
    /\ c_locals' = 0
    /\ c_io' = "none"
    /\ c_response' = NoResponse
    /\ c_out' = "unset"
    /\ c_out_from' = "none"
    /\ c_server_result' = "unset"
    /\ c_pc' = "connect"
    /\ UNCHANGED socket_file
    /\ UNCHANGED c_conn
    /\ ClientFrame

\* transcribe_audio(audio, audio_file) is called; _try_server_transcription
\* returns None at once when the socket path does not exist
ClientStart ==
    /\ c_pc = "idle"
    /\ c_req < MaxRequests
    /\ c_req' = c_req + 1
    /\ c_connects' = 0
    /\ c_locals' = 0
    /\ c_io' = "none"
    /\ c_response' = NoResponse
    /\ c_out' = "unset"
    /\ c_out_from' = "none"
    /\ IF socket_file
       THEN c_server_result' = "unset" /\ c_pc' = "connect"
       ELSE c_server_result' = "None" /\ c_pc' = "local"
    /\ UNCHANGED socket_file
    /\ UNCHANGED c_conn
    /\ ClientFrame

SocketOutcomes == {"ok", "refused", "timeout", "error"}

ClientConnect_Retry(outcome) ==
    /\ c_pc = "connect"
    /\ c_connects' = c_connects + 1
    /\ c_io' = outcome
    /\ IF outcome = "ok"
       THEN /\ c_pc' = "send"
            /\ UNCHANGED <<c_server_result, c_out, c_out_from, c_locals>>
       ELSE IF outcome = "refused" /\ c_connects = 0
       THEN /\ c_pc' = "connect"
            /\ UNCHANGED <<c_server_result, c_out, c_out_from, c_locals>>
       ELSE FallBack
    /\ UNCHANGED <<socket_file, c_req, c_response>>
    /\ c_conn' = IF outcome = "ok" THEN c_conn + 1 ELSE c_conn
    /\ ClientFrame

\* sock.settimeout(30.0); sock.connect(STT_SERVER_SOCKET)
ClientConnect(outcome) ==
    /\ c_pc = "connect"
    /\ c_connects' = c_connects + 1
    /\ c_io' = outcome
    /\ IF outcome = "ok"
       THEN /\ c_pc' = "send"
            /\ UNCHANGED <<c_server_result, c_out, c_out_from, c_locals>>
       ELSE FallBack
    /\ UNCHANGED <<socket_file, c_req, c_response>>
    /\ c_conn' = IF outcome = "ok" THEN c_conn + 1 ELSE c_conn
    /\ ClientFrame

\* sock.sendall(request.encode('utf-8'))
ClientSend(outcome) ==
    /\ c_pc = "send"
    /\ outcome # "refused"
    /\ c_io' = outcome
    /\ IF outcome = "ok"
       THEN /\ c_pc' = "recv"
            /\ UNCHANGED <<c_server_result, c_out, c_out_from, c_locals>>
       ELSE FallBack
    /\ UNCHANGED <<socket_file, c_req, c_connects, c_response>>
    /\ UNCHANGED c_conn
    /\ ClientFrame

\* the receive loop ends on EOF or a newline and the data is interpreted
ClientReceive(resp) ==
    /\ c_pc = "recv"
    /\ c_response' = resp
    /\ LET result == TryParse(resp) IN
        /\ c_server_result' = result
        /\ IF result = "None"
           THEN c_pc' = "local" /\ UNCHANGED <<c_out, c_out_from>>
           ELSE /\ c_pc' = "done"
                /\ c_out' = IF result = "Text" THEN "text" ELSE "empty"
                /\ c_out_from' = "server"
    /\ UNCHANGED <<socket_file, c_req, c_connects, c_locals, c_io>>
    /\ UNCHANGED c_conn
    /\ ClientFrame

\* sock.recv raised: socket.timeout, or a reset connection
ClientReceiveFails(outcome) ==
    /\ c_pc = "recv"
    /\ outcome \in {"timeout", "error"}
    /\ c_io' = outcome
    /\ FallBack
    /\ UNCHANGED <<socket_file, c_req, c_connects, c_response>>
    /\ UNCHANGED c_conn
    /\ ClientFrame

\* the local WhisperModel is loaded and run: a list of segments, or
\* "Transcription failed" and sys.exit(1)
ClientLocal(result) ==
    /\ c_pc = "local"
    /\ c_locals' = c_locals + 1
    /\ c_out' = IF result = "fail" THEN "exit1"
                ELSE IF result = "text" THEN "text" ELSE "empty"
    /\ c_out_from' = "local"
    /\ c_pc' = "done"
    /\ UNCHANGED <<socket_file, c_req, c_connects, c_io, c_response,
                   c_server_result>>
    /\ UNCHANGED c_conn
    /\ ClientFrame

\* the speech_to_text.py process ends; the next session runs a new one
ClientEnds ==
    /\ c_pc = "done"
    /\ c_pc' = "idle"
    /\ UNCHANGED <<socket_file, c_req, c_connects, c_locals, c_io, c_response,
                   c_server_result, c_out, c_out_from>>
    /\ UNCHANGED c_conn
    /\ ClientFrame

\* a server creates or removes the socket file
SocketFileChanges ==
    /\ socket_file' = ~socket_file
    /\ UNCHANGED clientState
    /\ ClientFrame

Connect == \E outcome \in SocketOutcomes : ClientConnect(outcome)
Send == \E outcome \in SocketOutcomes : ClientSend(outcome)
Receive == \E resp \in Responses : ClientReceive(resp)
ReceiveFails == \E outcome \in SocketOutcomes : ClientReceiveFails(outcome)
Local == \E result \in SttResults : ClientLocal(result)


\* ========================================= stt_server.py: the server
Conns == 1..MaxConns

\* what handle_client can find in the bytes it read: nothing (the peer closed),
\* bytes that are not JSON, JSON that is not an object, an object without an
\* audio_path, an audio_path naming no file, an audio_path naming audio
Requests ==
    {"eof", "invalid_json", "non_object", "no_audio_path", "missing_file", "audio"}

Handler(st, req, resp) == [st |-> st, req |-> req, resp |-> resp]
NoHandler == Handler("none", "unread", "none")

\* handle_client up to the model call: "none" closes without a response
\* (`if not data: return`, and the AttributeError of request.get on JSON that
\* is not an object, caught by `except Exception`), "error" sends an error
\* object, "model" goes on into model.transcribe
ResponseFields_ErrorWithText(resp) ==
    IF resp = "text"
    THEN {"text", "language", "language_probability", "duration", "segments"}
    ELSE IF resp = "error" THEN {"error", "text"}
    ELSE {}

\* the keys of the JSON object a handler sends: the result dictionary of
\* transcribe, or an error dictionary; nothing when no response is sent
ResponseFields(resp) ==
    IF resp = "text"
    THEN {"text", "language", "language_probability", "duration", "segments"}
    ELSE IF resp = "error" THEN {"error"}
    ELSE {}

BeforeModel(req) ==
    IF req = "eof" THEN "none"
    ELSE IF req = "invalid_json" THEN "error"
    ELSE IF req = "non_object" THEN "none"
    ELSE IF req \in {"no_audio_path", "missing_file"} THEN "error"
    ELSE "model"

InFlight == {c \in Conns : handler[c].st \in {"reading", "transcribing"}}

ServerInit ==
    /\ s_pc = "boot"
    /\ shutdown_flag = FALSE
    /\ naccepted = 0
    /\ handler = [c \in Conns |-> NoHandler]
    /\ at_signal = {}
    /\ socket_kind = "absent"
    /\ stale_removed = FALSE
    /\ model_loads = 0
    /\ handler_model = [c \in Conns |-> None]
    /\ second_pc = "off"

ServerFrame == UNCHANGED <<mainVars, logicVars, clientState, second_pc>>

\* an earlier run of the server ended without removing its socket file
StaleSocket ==
    /\ s_pc = "boot"
    /\ ~socket_file
    /\ socket_file' = TRUE
    /\ socket_kind' = "stale"
    /\ UNCHANGED <<s_pc, shutdown_flag, naccepted, handler, at_signal, stale_removed, model_loads, handler_model>>
    /\ ServerFrame

\* main: the signal handlers are installed, cleanup_socket()
ServerBoot ==
    /\ s_pc = "boot"
    /\ socket_file' = FALSE
    /\ socket_kind' = "absent"
    /\ stale_removed' = (socket_kind = "stale")
    /\ s_pc' = "load"
    /\ UNCHANGED <<shutdown_flag, naccepted, handler, at_signal, model_loads, handler_model>>
    /\ ServerFrame

\* load_model(): the model, or sys.exit(1)
ServerLoad(ok) ==
    /\ s_pc = "load"
    /\ s_pc' = IF ok THEN "bind" ELSE "stopped"
    /\ model_loads' = IF ok THEN model_loads + 1 ELSE model_loads
    /\ UNCHANGED <<socket_file, shutdown_flag, naccepted, handler, at_signal, socket_kind, stale_removed, handler_model>>
    /\ ServerFrame

\* server.bind(SOCKET_PATH) creates the socket file; listen(5); settimeout(1.0).
\* On a path that exists bind raises OSError (address already in use) before
\* the try block is entered, and the process ends without a cleanup
ServerBind ==
    /\ s_pc = "bind"
    /\ IF socket_file
       THEN s_pc' = "stopped" /\ UNCHANGED <<socket_file, socket_kind>>
       ELSE s_pc' = "chmod" /\ socket_file' = TRUE /\ socket_kind' = "bound"
    /\ UNCHANGED <<shutdown_flag, naccepted, handler, at_signal, stale_removed, model_loads, handler_model>>
    /\ ServerFrame

ServerChmod_Skipped ==
    /\ s_pc = "chmod"
    /\ s_pc' = "loop"
    /\ UNCHANGED <<socket_file, shutdown_flag, naccepted, handler, at_signal, socket_kind, stale_removed, model_loads, handler_model>>
    /\ ServerFrame

\* os.chmod(SOCKET_PATH, 0o666): "Make socket accessible to all users"
ServerChmod ==
    /\ s_pc = "chmod"
    /\ socket_kind' = "open"
    /\ s_pc' = "loop"
    /\ UNCHANGED <<socket_file, shutdown_flag, naccepted, handler, at_signal, stale_removed, model_loads, handler_model>>
    /\ ServerFrame

LoopCheck_IgnoresFlag ==
    /\ s_pc = "loop"
    /\ s_pc' = IF shutdown_flag /\ naccepted = MaxConns THEN "finally" ELSE "accept"
    /\ UNCHANGED <<socket_file, shutdown_flag, naccepted, handler, at_signal, socket_kind, stale_removed, model_loads, handler_model>>
    /\ ServerFrame

\* while not SHUTDOWN_FLAG.is_set():
LoopCheck ==
    /\ s_pc = "loop"
    /\ s_pc' = IF shutdown_flag THEN "finally" ELSE "accept"
    /\ UNCHANGED <<socket_file, shutdown_flag, naccepted, handler, at_signal, socket_kind, stale_removed, model_loads, handler_model>>
    /\ ServerFrame

Accept_LoadsModel ==
    /\ s_pc = "accept"
    /\ naccepted < MaxConns
    /\ naccepted' = naccepted + 1
    /\ handler' = [handler EXCEPT ![naccepted + 1] = Handler("reading", "unread", "none")]
    /\ model_loads' = model_loads + 1
    /\ handler_model' = [handler_model EXCEPT ![naccepted + 1] = model_loads + 1]
    /\ s_pc' = "loop"
    /\ UNCHANGED <<socket_file, shutdown_flag, at_signal, socket_kind, stale_removed>>
    /\ ServerFrame

Accept_HandlesInline ==
    /\ s_pc = "accept"
    /\ naccepted < MaxConns
    /\ InFlight = {}
    /\ naccepted' = naccepted + 1
    /\ handler' = [handler EXCEPT ![naccepted + 1] = Handler("reading", "unread", "none")]
    /\ handler_model' = [handler_model EXCEPT ![naccepted + 1] = model_loads]
    /\ s_pc' = "loop"
    /\ UNCHANGED <<socket_file, shutdown_flag, at_signal, socket_kind, stale_removed, model_loads>>
    /\ ServerFrame

\* server.accept() returns a connection: a daemon thread runs
\* handle_client(conn, model) with the model main loaded
Accept ==
    /\ s_pc = "accept"
    /\ naccepted < MaxConns
    /\ naccepted' = naccepted + 1
    /\ handler' = [handler EXCEPT ![naccepted + 1] = Handler("reading", "unread", "none")]
    /\ handler_model' = [handler_model EXCEPT ![naccepted + 1] = model_loads]
    /\ s_pc' = "loop"
    /\ UNCHANGED <<socket_file, shutdown_flag, at_signal, socket_kind, stale_removed, model_loads>>
    /\ ServerFrame

\* except socket.timeout: continue
AcceptTimeout ==
    /\ s_pc = "accept"
    /\ s_pc' = "loop"
    /\ UNCHANGED <<socket_file, shutdown_flag, naccepted, handler, at_signal, socket_kind, stale_removed, model_loads, handler_model>>
    /\ ServerFrame

\* handle_client has read the request: it answers at once, closes without an
\* answer, or enters transcribe(model, audio_path)
HandlerReads(c, req) ==
    /\ s_pc # "stopped"
    /\ handler[c].st = "reading"
    /\ handler' = [handler EXCEPT ![c] =
                      IF BeforeModel(req) = "model"
                      THEN Handler("transcribing", req, "none")
                      ELSE Handler("closed", req, BeforeModel(req))]
    /\ UNCHANGED <<socket_file, s_pc, shutdown_flag, naccepted, at_signal, socket_kind, stale_removed, model_loads, handler_model>>
    /\ ServerFrame

\* model.transcribe returns (a text response) or raises (an error response);
\* the response is sent and the connection closed
HandlerTranscribes(c, ok) ==
    /\ s_pc # "stopped"
    /\ handler[c].st = "transcribing"
    /\ handler' = [handler EXCEPT ![c] =
                      Handler("closed", handler[c].req, IF ok THEN "text" ELSE "error")]
    /\ UNCHANGED <<socket_file, s_pc, shutdown_flag, naccepted, at_signal, socket_kind, stale_removed, model_loads, handler_model>>
    /\ ServerFrame

\* SIGINT or SIGTERM: signal_handler sets the flag
Signal ==
    /\ s_pc \notin {"boot", "stopped"}
    /\ shutdown_flag' = TRUE
    /\ at_signal' = at_signal \cup InFlight
    /\ UNCHANGED <<socket_file, s_pc, naccepted, handler, socket_kind, stale_removed, model_loads, handler_model>>
    /\ ServerFrame

\* finally: server.close(); cleanup_socket()
ServerFinally ==
    /\ s_pc = "finally"
    /\ socket_file' = FALSE
    /\ socket_kind' = "absent"
    /\ s_pc' = "exit"
    /\ UNCHANGED <<shutdown_flag, naccepted, handler, at_signal, stale_removed, model_loads, handler_model>>
    /\ ServerFrame

\* main returns and the interpreter exits: the daemon threads still running
\* end with it
ServerExit ==
    /\ s_pc = "exit"
    /\ s_pc' = "stopped"
    /\ handler' = [c \in Conns |->
                      IF c \in InFlight
                      THEN Handler("killed", handler[c].req, "none")
                      ELSE handler[c]]
    /\ UNCHANGED <<socket_file, shutdown_flag, naccepted, at_signal, socket_kind, stale_removed, model_loads, handler_model>>
    /\ ServerFrame

Load == \E ok \in BOOLEAN : ServerLoad(ok)
Reads == \E c \in Conns, req \in Requests : HandlerReads(c, req)
Transcribes == \E c \in Conns, ok \in BOOLEAN : HandlerTranscribes(c, ok)

\* ============ a second stt_server.py process started on the same SOCKET_PATH
SecondFrame ==
    UNCHANGED <<mainVars, logicVars, clientState, s_pc, shutdown_flag, naccepted,
                handler, at_signal, stale_removed, model_loads, handler_model>>

\* main of the second process: cleanup_socket() removes whatever file is at
\* SOCKET_PATH
SecondBoot ==
    /\ second_pc = "off"
    /\ socket_file' = FALSE
    /\ socket_kind' = "absent"
    /\ second_pc' = "load"
    /\ SecondFrame

\* load_model(): the model, or sys.exit(1)
SecondLoad(ok) ==
    /\ second_pc = "load"
    /\ second_pc' = IF ok THEN "bind" ELSE "stopped"
    /\ UNCHANGED <<socket_file, socket_kind>>
    /\ SecondFrame

\* server.bind(SOCKET_PATH), listen, chmod, and the accept loop is entered;
\* on a path that exists bind raises and the process ends
SecondBind ==
    /\ second_pc = "bind"
    /\ IF socket_file
       THEN second_pc' = "stopped" /\ UNCHANGED <<socket_file, socket_kind>>
       ELSE second_pc' = "serving" /\ socket_file' = TRUE /\ socket_kind' = "second"
    /\ SecondFrame

\* a signal sets the flag, the loop ends; finally: server.close();
\* cleanup_socket() removes whatever file is at SOCKET_PATH
SecondShutdown ==
    /\ second_pc = "serving"
    /\ socket_file' = FALSE
    /\ socket_kind' = "absent"
    /\ second_pc' = "stopped"
    /\ SecondFrame

SecondLoads == \E ok \in BOOLEAN : SecondLoad(ok)

\* ===================== the client and the server on the same socket file
\* server.listen(5) has been called and server.close() has not
Listening == s_pc \in {"chmod", "loop", "accept", "finally"}

\* The server end of the connection the client established last, when the
\* client is the only one that connects: "backlog" while accept() has not
\* returned it, "dropped" when the listening socket was closed with the
\* connection still in the backlog, otherwise the state of its handler
Peer ==
    IF c_conn = 0 THEN "none"
    ELSE IF c_conn > naccepted THEN (IF Listening THEN "backlog" ELSE "dropped")
    ELSE handler[c_conn].st

\* sock.connect: succeeds on a listening socket, is refused on a socket file
\* nobody listens on, finds no file, or times out on a full backlog
SystemConnect(outcome) ==
    /\ outcome = "ok" => (Listening /\ c_conn < MaxConns)
    /\ outcome = "refused" => (socket_file /\ ~Listening)
    /\ outcome = "error" => ~socket_file
    /\ outcome = "timeout" => Listening
    /\ ClientConnect(outcome)

\* sock.sendall: fails when the server end of the connection is closed
SystemSend(outcome) ==
    /\ outcome \in {"ok", "error"}
    /\ (outcome = "error") = (Peer \in {"dropped", "killed"})
    /\ ClientSend(outcome)

\* sock.recv returns what the handler sent before it closed the connection,
\* or nothing when the connection was closed without a response
SystemReceive(resp) ==
    /\ \/ /\ Peer = "closed" /\ handler[c_conn].resp = "text"
          /\ resp.kind = "object" /\ ~resp.error /\ resp.text \in {"empty", "words"}
       \/ /\ Peer = "closed" /\ handler[c_conn].resp = "error"
          /\ resp = Response("object", TRUE, "absent")
       \/ /\ Peer \in {"dropped", "killed"}
          /\ resp.kind = "nodata"
    /\ ClientReceive(resp)

\* sock.recv raises: socket.timeout after 30 s without a response from a
\* server that still runs, a reset when the server end was closed unread
SystemReceiveFails(outcome) ==
    /\ outcome = "timeout" => Peer \in {"backlog", "reading", "transcribing"}
    /\ outcome = "error" => Peer \in {"dropped", "killed"}
    /\ ClientReceiveFails(outcome)

\* server.accept() returns the next connection of the client
SystemAccept ==
    /\ naccepted < c_conn
    /\ Accept

\* conn.recv in handle_client returns the request the client sent, a JSON
\* object with an audio_path
SystemReads(c, req) ==
    /\ req \in {"missing_file", "audio"}
    /\ c < c_conn \/ c_pc # "send"
    /\ HandlerReads(c, req)

SysConnect == \E outcome \in SocketOutcomes : SystemConnect(outcome)
SysSend == \E outcome \in SocketOutcomes : SystemSend(outcome)
SysReceive == \E resp \in Responses : SystemReceive(resp)
SysReceiveFails == \E outcome \in SocketOutcomes : SystemReceiveFails(outcome)
SysReads == \E c \in Conns, req \in Requests : SystemReads(c, req)

\* ========================================================= specifications
Init == MainInit /\ LogicInit /\ ClientInit /\ ServerInit

Next ==
    \/ ReadEvent
    \/ CaptureWait
    \/ VerifyAudio
    \/ SpeechToText
    \/ CaptureWrite
    \/ CaptureExit
    \/ KeyboardInterrupt
    \/ ReadLoopError

Spec == Init /\ [][Next]_vars

LogicNext == KeyEvent

\* the trigger logic alone, beside a main that starts with a clean /tmp
LogicStart ==
    Init /\ audio_file = NoFile /\ output_file = NoFile /\ ~typed_ok /\ ~socket_file

\* the dispatch client alone, one run of transcribe_audio after the other
ClientStartState ==
    Init /\ audio_file = NoFile /\ output_file = NoFile /\ ~typed_ok

ClientNext ==
    \/ ClientStart
    \/ Connect
    \/ Send
    \/ Receive
    \/ ReceiveFails
    \/ Local
    \/ ClientEnds
    \/ SocketFileChanges

ClientSpec == ClientStartState /\ [][ClientNext]_vars

\* the server alone, from its start to the end of its process
ServerStartState ==
    Init /\ audio_file = NoFile /\ output_file = NoFile /\ ~typed_ok

ServerNext ==
    \/ StaleSocket
    \/ ServerBoot
    \/ Load
    \/ ServerBind
    \/ ServerChmod
    \/ LoopCheck
    \/ Accept
    \/ AcceptTimeout
    \/ Reads
    \/ Transcribes
    \/ Signal
    \/ ServerFinally
    \/ ServerExit

ServerSpec == ServerStartState /\ [][ServerNext]_vars

\* the main thread of the server keeps running: load_model returns or exits,
\* and server.accept() returns within its timeout of one second
ServerFairness ==
    /\ WF_vars(Load)
    /\ WF_vars(ServerBind)
    /\ WF_vars(ServerChmod)
    /\ WF_vars(LoopCheck)
    /\ WF_vars(AcceptTimeout)
    /\ WF_vars(ServerFinally)
    /\ WF_vars(ServerExit)

ServerLiveSpec == ServerStartState /\ [][ServerNext]_vars /\ ServerFairness

\* the client of one key listener and the server, from the start of the server
SystemStartState ==
    Init /\ audio_file = NoFile /\ output_file = NoFile /\ ~typed_ok

SystemNext ==
    \/ StaleSocket
    \/ ServerBoot
    \/ Load
    \/ ServerBind
    \/ ServerChmod
    \/ LoopCheck
    \/ SystemAccept
    \/ AcceptTimeout
    \/ SysReads
    \/ Transcribes
    \/ Signal
    \/ ServerFinally
    \/ ServerExit
    \/ ClientStart
    \/ SysConnect
    \/ SysSend
    \/ SysReceive
    \/ SysReceiveFails
    \/ Local
    \/ ClientEnds

SystemSpec == SystemStartState /\ [][SystemNext]_vars

\* the socket calls of the client return, at the latest when the timeout of
\* 30 s set by sock.settimeout expires, and the local model run ends
SystemFairness ==
    /\ WF_vars(SysSend)
    /\ WF_vars(SysReceive \/ SysReceiveFails)
    /\ WF_vars(Local)

SystemLiveSpec == SystemStartState /\ [][SystemNext]_vars /\ SystemFairness

\* two server processes started by hand or by two service units
TwoServersStartState ==
    Init /\ audio_file = NoFile /\ output_file = NoFile /\ ~typed_ok

TwoServersNext ==
    \/ StaleSocket
    \/ ServerBoot
    \/ Load
    \/ ServerBind
    \/ ServerChmod
    \/ LoopCheck
    \/ Accept
    \/ AcceptTimeout
    \/ Reads
    \/ Transcribes
    \/ Signal
    \/ ServerFinally
    \/ ServerExit
    \/ SecondBoot
    \/ SecondLoads
    \/ SecondBind
    \/ SecondShutdown

TwoServersSpec == TwoServersStartState /\ [][TwoServersNext]_vars

LogicSpec == LogicStart /\ [][LogicNext]_vars

\* ================================================================= claims
F16Down == <<"EV_KEY", "KEY_F16", key_down>>
F16Up == <<"EV_KEY", "KEY_F16", key_up>>

\* captures that were started and have not been told to stop
ActiveCaptures ==
    {s \in Sessions : proc_state[s] # "unborn" /\ s \notin stop_requested}

\* C1: in every reachable state of main at most one capture is active: no
\* capture is started while an earlier one has not been stopped, and the one
\* that is active is the one recording_process refers to.
C1_AtMostOneCapture ==
    /\ Cardinality(ActiveCaptures) <= 1
    /\ ActiveCaptures \subseteq {recording_process}

\* a key-down of KEY_F16 arrived while a capture was active and started nothing
C1_Witness ==
    /\ recording_process # None
    /\ last_event = F16Down
    /\ last_cmd = "Ignore"
    /\ ActiveCaptures = {recording_process}

C3_DoubleTapActivates ==
    (taps.stage = 3 /\ now - taps.rel <= DOUBLE_TAP_THRESHOLD)
        => /\ lg_cmd = "Start"
           /\ on_start = taps.starts + 1
           /\ on_stop = taps.stops
           /\ recording
           /\ active_key = taps.key

\* the second press came exactly the threshold after the release
C3_Witness ==
    /\ taps.stage = 3
    /\ taps.key = "KEY_LEFTCTRL"
    /\ now - taps.rel = DOUBLE_TAP_THRESHOLD
    /\ lg_event = <<"KEY_LEFTCTRL", key_down>>
    /\ recording

\* C4: in a run down, up, down of one DoubleTap key that began idle, a second
\* down later than the threshold after the release calls on_start for none of
\* the three events and leaves the logic not recording.
C4_SlowDoubleTapIgnored ==
    (taps.stage = 3 /\ now - taps.rel > DOUBLE_TAP_THRESHOLD)
        => /\ lg_cmd = "Ignore"
           /\ on_start = taps.starts
           /\ ~recording
           /\ active_key = NoKey

\* the second press came one tick after the threshold
C4_Witness ==
    /\ taps.stage = 3
    /\ taps.key = "KEY_LEFTMETA"
    /\ now - taps.rel = DOUBLE_TAP_THRESHOLD + 1
    /\ lg_event = <<"KEY_LEFTMETA", key_down>>
    /\ ~recording

\* C5: a press of a DoubleTap key that finds the logic idle, and the release
\* that follows it, call neither on_start nor on_stop and leave the logic not
\* recording.
C5_SinglePressDoesNothing ==
    taps.stage \in {1, 2}
        => /\ lg_cmd = "Ignore"
           /\ on_start = taps.starts
           /\ on_stop = taps.stops
           /\ ~recording
           /\ active_key = NoKey

\* the press has been released
C5_Witness ==
    /\ taps.stage = 2
    /\ taps.key = "KEY_LEFTMETA"
    /\ lg_event = <<"KEY_LEFTMETA", key_up>>
    /\ taps.rel = now

\* C6: once the second press of a DoubleTap key has started a session, the
\* release of that key calls on_stop once and leaves the logic idle.
C6_SecondReleaseStops ==
    taps.stage = 5
        => /\ lg_cmd = "Stop"
           /\ on_stop = taps.stops + 1
           /\ on_start = taps.starts + 1
           /\ ~recording
           /\ active_key = NoKey

\* the second press has been released
C6_Witness ==
    /\ taps.stage = 5
    /\ lg_event = <<taps.key, key_up>>
    /\ on_stop = 1

\* C7: while main is Recording, handling a key event of a key other than
\* KEY_F16 starts nothing, stops nothing and leaves the session as it was.
C7_OtherKeysIgnored ==
    [][(/\ recording_process # None
        /\ last_event' # last_event
        /\ last_event'[1] = "EV_KEY"
        /\ last_event'[2] # "KEY_F16")
       => (/\ last_cmd' = "Ignore"
           /\ UNCHANGED <<pc, recording_process, nsessions, proc_state,
                          stop_requested, audio_file, output_file, typed_ok,
                          aborted, dispatched, stt_failed, delivered,
                          exit_cause>>)]_vars

\* the release of another key was handled during a recording
C7_Witness ==
    /\ recording_process # None
    /\ pc = "read"
    /\ last_event = <<"EV_KEY", "KEY_LEFTMETA", key_up>>
    /\ last_cmd = "Ignore"
    /\ proc_state[recording_process] = "running"

\* C8: after a capture launch failed, the controller is Idle and still in its
\* read loop, unless a shutdown signal or a device error ended it.
C8_LaunchFailureAbandonsSession ==
    last_cmd = "StartFailed"
        => /\ recording_process = None
           /\ pc = "read" \/ exit_cause \in {"KeyboardInterrupt", "OSError"}

\* C9: when the audio file is missing or empty at verification, the session
\* is dropped without a speech-to-text call and main is Idle in its read loop;
\* no dropped session is ever dispatched.
C9_NoDispatchWithoutAudio ==
    /\ [](aborted \cap dispatched = {})
    /\ [][(/\ pc = "verify"
           /\ pc' \notin {"verify", "exited"}
           /\ audio_file.st \in {"missing", "empty"})
          => (/\ pc' = "read"
              /\ recording_process' = None
              /\ aborted' = aborted \cup {recording_process}
              /\ dispatched' = dispatched
              /\ delivered' = delivered)]_vars

\* a session whose capture left a zero-byte file was dropped
C9_Witness ==
    /\ aborted # {}
    /\ audio_file.st = "empty"
    /\ audio_file.by \in aborted
    /\ pc = "read"
    /\ recording_process = None

\* C10: when the speech-to-text run of a session fails, main is Idle in its
\* read loop afterwards, nothing was delivered in that session, and main is
\* not ended by the failure.
C10_TranscriptionFailure ==
    /\ [](\A d \in delivered : d[1] \notin stt_failed)
    /\ [][(pc = "stt" /\ stt_failed' # stt_failed)
          => (/\ pc' = "read"
              /\ recording_process' = None
              /\ delivered' = delivered
              /\ exit_cause' = "none")]_vars

\* after a failed run a later key-down started the next session
C10_Witness ==
    /\ 1 \in stt_failed
    /\ recording_process = 2
    /\ last_cmd = "Start"
    /\ pc = "read"

\* the steps between the key-up and the end of its handler
Teardown == {"wait", "verify", "stt"}

\* C11: a capture is started only while main sits in its read loop with no
\* session held: every earlier session has been told to stop and has been
\* either dropped at verification or handed to speech-to-text, and no
\* teardown step is pending.
C11_StartAfterTeardown ==
    [][nsessions' # nsessions
       => (/\ pc = "read" /\ pc' = "read"
           /\ recording_process = None
           /\ \A s \in 1..nsessions :
                  s \in stop_requested /\ s \in aborted \cup dispatched)]_vars

\* a second capture runs after the first session went through dispatch
C11_Witness ==
    /\ nsessions = 2
    /\ recording_process = 2
    /\ 1 \in dispatched
    /\ 1 \notin stt_failed
    /\ last_cmd = "Start"

\* C12 as stated: while the speech-to-text run of a session is in progress,
\* main can read and handle a key event.
C12_EventsHandledDuringDispatch ==
    pc = "stt" => ENABLED ReadEvent

\* C12 as amended: while the teardown of a session (wait, verification,
\* speech-to-text run) is in progress, main handles no key event; the events
\* are handled only after subprocess.run has returned.
C12_DispatchBlocksIngestion ==
    [][(pc \in Teardown)
       => (/\ last_event' = last_event
           /\ last_cmd' = last_cmd
           /\ nsessions' = nsessions)]_vars

\* the speech-to-text run of the first session is in progress
C12_Witness ==
    /\ pc = "stt"
    /\ recording_process = 1
    /\ 1 \in dispatched
    /\ last_event = F16Up

\* ---------------------------------------------------------------- C13
\* C13: a request that finds no socket file goes straight to the local
\* invocation: no sock.connect is made for it (so no socket timeout is waited
\* on), and a request that ended without a connection attempt got its result
\* from the local invocation, run once.
C13_NoSocketGoesLocal ==
    /\ [][(c_pc = "idle" /\ c_pc' # "idle" /\ ~socket_file)
          => (c_pc' = "local" /\ c_connects' = 0 /\ c_io' = "none")]_vars
    /\ []((c_req > 0 /\ c_connects = 0 /\ c_pc # "connect")
          => (/\ c_io = "none"
              /\ c_server_result = "None"
              /\ c_pc # "local" => (c_locals = 1 /\ c_out_from = "local")))

C13_Witness ==
    /\ c_pc = "done" /\ c_connects = 0 /\ c_io = "none"
    /\ c_locals = 1 /\ c_out = "text" /\ c_out_from = "local"

\* ---------------------------------------------------------------- C14
SocketFailed == c_io \in {"refused", "timeout", "error"}
MalformedResponse == c_response.kind \in {"nodata", "garbage", "list", "number"}

\* C14: after a refused, timed-out or otherwise failed socket call, and after a
\* response that is empty, not JSON or not a JSON object, the socket path has
\* returned None; the local invocation follows, and the request ends with
\* whatever it gave (text, nothing, or exit status 1).
C14_FailuresFallBack ==
    (SocketFailed \/ MalformedResponse)
        => (/\ c_server_result = "None"
            /\ c_pc \in {"local", "done", "idle"}
            /\ c_pc # "local"
                => (/\ c_locals = 1 /\ c_out_from = "local"
                    /\ c_out \in {"text", "empty", "exit1"}))

C14_Witness ==
    /\ c_pc = "done" /\ c_io = "timeout" /\ c_connects = 1
    /\ c_locals = 1 /\ c_out = "exit1"

\* ---------------------------------------------------------------- C15
ServerError == c_response.kind = "object" /\ c_response.error

\* C15 as stated: after a response with an error field the request ends with
\* no output text.
C15_ServerErrorNoText == ServerError => c_out # "text"

\* C15: a response with an error field makes the socket path return None; the
\* local invocation follows and the request's output is the local one.
C15_ServerErrorFallsBack ==
    ServerError
        => (/\ c_server_result = "None"
            /\ c_pc \in {"local", "done", "idle"}
            /\ c_pc # "local" => (c_locals = 1 /\ c_out_from = "local"))

C15_Witness ==
    /\ c_response = Response("object", TRUE, "absent")
    /\ c_pc = "done" /\ c_out = "text" /\ c_out_from = "local"

\* ---------------------------------------------------------------- C16
\* C16 as stated: a finished request has run the socket path or the local
\* invocation, never both, and has connected at most once.
C16_ExactlyOnePathRuns ==
    c_pc = "done" => (c_connects =< 1 /\ (c_connects > 0) # (c_locals > 0))

\* C16: a request connects to the socket at most once and runs the local
\* invocation at most once; its result comes from exactly one of the two: from
\* the server when the socket path returned a list, from the local invocation
\* when the socket path returned None.
C16_OneResultNoRetry ==
    /\ c_connects =< 1
    /\ c_locals =< 1
    /\ c_pc = "done"
        => \/ (/\ c_out_from = "server" /\ c_locals = 0 /\ c_connects = 1
               /\ c_server_result \in {"Empty", "Text"})
           \/ (/\ c_out_from = "local" /\ c_locals = 1
               /\ c_server_result = "None")

C16_Witness ==
    c_pc = "done" /\ c_io = "refused" /\ c_connects = 1 /\ c_locals = 1

\* ---------------------------------------------------------------- C17
\* C17: a JSON object response without an error field and without text (or
\* with text "") ends the request with an empty result from the server: the
\* socket path returns [] and the local invocation is not run.
C17_EmptyTextIsSuccess ==
    (c_response.kind = "object" /\ ~c_response.error
        /\ c_response.text \in {"absent", "empty"})
        => (/\ c_server_result = "Empty" /\ c_locals = 0
            /\ c_out = "empty" /\ c_out_from = "server"
            /\ c_pc \in {"done", "idle"})

C17_Witness ==
    /\ c_response = Response("object", FALSE, "absent")
    /\ c_pc = "done" /\ c_out = "empty" /\ c_locals = 0

\* ---------------------------------------------------------------- C18
MalformedRequests == {"eof", "invalid_json", "non_object", "no_audio_path"}

\* C18: every connection closed after a malformed request was sent an error
\* object first.
C18_MalformedGetsErrorObject ==
    \A c \in Conns :
        (handler[c].st = "closed" /\ handler[c].req \in MalformedRequests)
            => handler[c].resp = "error"

\* ---------------------------------------------------------------- C19
InModel == {c \in Conns : handler[c].st = "transcribing"}

\* C19: at most one handler is inside model.transcribe at any time.
C19_OneHandlerInModel == Cardinality(InModel) =< 1

\* ---------------------------------------------------------------- C20
\* C20: when the server process has ended, every handler that was in flight
\* when a termination signal arrived has finished and closed its connection.
C20_InFlightHandlersFinish ==
    s_pc = "stopped" => \A c \in at_signal : handler[c].st = "closed"

C23_ModelLoadedOnce ==
    /\ [](model_loads =< 1)
    /\ [][naccepted' # naccepted => model_loads = 1]_vars
    /\ [](\A c \in Conns : handler[c].st # "none" => handler_model[c] = 1)
    /\ [](model_loads = 0 => naccepted = 0)
    /\ []((s_pc = "stopped" /\ model_loads = 0) => ~socket_file)

\* two handlers are inside model.transcribe of the one loaded model
C23_Witness ==
    /\ model_loads = 1 /\ naccepted = 2
    /\ \A c \in {1, 2} : handler[c].st = "transcribing" /\ handler_model[c] = 1

\* ---------------------------------------------------------------- C24
\* C24: the JSON object of every response a handler has sent holds exactly
\* one of the keys "text" and "error".
C24_TextOrError ==
    \A c \in Conns :
        handler[c].resp # "none"
            => Cardinality(ResponseFields(handler[c].resp) \cap {"text", "error"}) = 1

\* one handler answered with a transcription, another with an error
C24_Witness ==
    /\ handler[1].st = "closed" /\ handler[1].resp = "text"
    /\ handler[2].st = "closed" /\ handler[2].resp = "error"

\* ---------------------------------------------------------------- C25
\* C25: every text put on the desktop in a session was recognized from the
\* recording that session's own capture wrote.
C25_DeliveredTextIsOwn ==
    \A d \in delivered : d[2] = d[1]

\* ---------------------------------------------------------------- C26
\* main has handled an event in this step
HandledNow == <<last_event, last_cmd>>' # <<last_event, last_cmd>>

\* the state of main apart from the record of the last event
ControllerState ==
    <<pc, recording_process, nsessions, proc_state, stop_requested, audio_file,
      output_file, typed_ok, aborted, dispatched, stt_failed, delivered,
      exit_cause>>

\* C26: a step in which main handles a key event with keystate 2 (repeat)
\* emits no command and changes nothing of the controller, whether a capture
\* is held or not.
C26_RepeatIgnored ==
    [][(HandledNow /\ last_event'[1] = "EV_KEY" /\ last_event'[3] = key_hold)
       => (last_cmd' = "Ignore" /\ ControllerState' = ControllerState)]_vars

\* the auto-repeat of the held KEY_F16 was handled while recording
C26_Witness ==
    /\ last_event = <<"EV_KEY", "KEY_F16", key_hold>>
    /\ last_cmd = "Ignore"
    /\ recording_process = 1 /\ pc = "read" /\ ActiveCaptures = {1}

\* ---------------------------------------------------------------- C27
\* C27: main enters wait(timeout=5) only from the read loop, by the step that
\* handles the key-up and sends terminate(); it leaves the wait only for the
\* verification (or by an interrupt); kill() is sent only in the step that
\* ends the wait, and only to the held capture when it has not exited; the
\* verification is entered only from the wait, the dispatch only from the
\* verification, of a capture that has exited or been killed.
C27_StopSequence ==
    /\ [][(pc # "wait" /\ pc' = "wait")
          => (/\ pc = "read" /\ last_cmd' = "Stop"
              /\ recording_process \in stop_requested'
              /\ proc_state'[recording_process] \in {"termsent", "exited"})]_vars
    /\ [][(pc = "wait" /\ pc' # "wait") => pc' \in {"verify", "exited"}]_vars
    /\ [][\A s \in Sessions :
            (proc_state[s] # "killed" /\ proc_state'[s] = "killed")
                => (/\ pc = "wait" /\ pc' = "verify"
                    /\ s = recording_process
                    /\ proc_state[s] = "termsent")]_vars
    /\ [][(pc # "verify" /\ pc' = "verify") => pc = "wait"]_vars
    /\ [][(pc # "stt" /\ pc' = "stt")
          => (/\ pc = "verify"
              /\ proc_state[recording_process] \in {"exited", "killed"})]_vars

\* a capture that did not exit within the grace period was killed, its
\* recording verified and dispatched
C27_Witness ==
    pc = "stt" /\ recording_process = 1 /\ proc_state[1] = "killed" /\ 1 \in dispatched

\* ---------------------------------------------------------------- C28
\* C28: the speech-to-text run is entered only from the verification, for the
\* held capture, which was launched and told to stop, was not dispatched or
\* aborted before, and whose recording passed the verification; the run ends
\* by dropping the handle, so it is entered at most once for a session; text
\* is delivered and the output file written only by a run in progress.
C28_DispatchOncePerStoppedSession ==
    /\ [][(pc # "stt" /\ pc' = "stt")
          => (/\ recording_process # None
              /\ proc_state[recording_process] # "unborn"
              /\ recording_process \in stop_requested
              /\ recording_process \notin dispatched \cup aborted
              /\ AudioCaptured(audio_file)
              /\ dispatched' = dispatched \cup {recording_process})]_vars
    /\ [][dispatched' # dispatched => (pc = "verify" /\ pc' = "stt")]_vars
    /\ [][(pc = "stt" /\ pc' \notin {"stt", "exited"})
          => (pc' = "read" /\ recording_process' = None)]_vars
    /\ [][(delivered' # delivered \/ output_file' # output_file) => pc = "stt"]_vars
    /\ [](dispatched \subseteq stop_requested \ aborted)

\* two sessions were each started, stopped and dispatched
C28_Witness ==
    dispatched = {1, 2} /\ pc = "read" /\ recording_process = None /\ aborted = {}

\* ---------------------------------------------------------------- C29
\* C29: with no capture held, a step in which main handles a key-up of KEY_F16
\* or an event of any other keycode emits no command and changes nothing of
\* the controller.
C29_StrayEventsIgnored ==
    [][(/\ HandledNow /\ recording_process = None
        /\ last_event'[1] = "EV_KEY"
        /\ (last_event' = F16Up \/ last_event'[2] # "KEY_F16"))
       => (last_cmd' = "Ignore" /\ ControllerState' = ControllerState)]_vars

\* a key-up of KEY_F16 was handled before any session was started
C29_Witness ==
    /\ last_event = F16Up /\ last_cmd = "Ignore"
    /\ recording_process = None /\ nsessions = 0 /\ pc = "read"

\* ---------------------------------------------------------------- C30
\* C30: a press of a DoubleTap key that comes later than the threshold after
\* the key's recorded release starts nothing; the release that follows it is
\* recorded as the key's release; and a press that follows within the
\* threshold of that release emits Start for the key.
C30_LatePressIsFirstTap ==
    /\ retap.stage = 1
        => (lg_cmd = "Ignore" /\ ~recording /\ press_open[retap.key])
    /\ retap.stage = 2
        => (/\ lg_cmd = "Ignore" /\ ~recording
            /\ last_release[retap.key] = retap.rel)
    /\ (retap.stage = 3 /\ now - retap.rel <= DOUBLE_TAP_THRESHOLD)
        => (lg_cmd = "Start" /\ recording /\ active_key = retap.key)

\* the press after the late pair came one tick after its release and started
C30_Witness ==
    /\ retap.stage = 3
    /\ retap.key = "KEY_LEFTMETA"
    /\ now - retap.rel = 1
    /\ lg_event = <<"KEY_LEFTMETA", key_down>>
    /\ lg_cmd = "Start" /\ recording

\* ---------------------------------------------------------------- C31
\* C31: while a session is recording, handling a press or a release of a
\* DoubleTap key that does not own the session leaves every key's open press
\* and recorded release as they were, emits nothing and leaves the session
\* recording.
C31_OtherKeyWindowUntouched ==
    [][(/\ lg_tick' # lg_tick
        /\ recording
        /\ lg_event'[1] \in DoubleTapKeys
        /\ lg_event'[1] # active_key
        /\ lg_event'[2] \in {key_down, key_up})
       => (/\ press_open' = press_open
           /\ last_release' = last_release
           /\ lg_cmd' = "Ignore"
           /\ recording' /\ active_key' = active_key)]_vars

\* a press of the Super key was open when KEY_F16 started the session, and
\* its release was handled during the session
C31_Witness ==
    /\ recording /\ active_key = "KEY_F16"
    /\ lg_event = <<"KEY_LEFTMETA", key_up>> /\ lg_cmd = "Ignore"
    /\ press_open["KEY_LEFTMETA"]
    /\ last_release["KEY_LEFTMETA"] = NoTime

\* ---------------------------------------------------------------- C32
\* C32: a main thread waiting in server.accept() can accept a connection
\* whatever the handlers of earlier connections are doing, and every handler
\* that is reading or transcribing can go on whatever the main thread and the
\* other handlers are doing, as long as the process lives.
C32_AcceptNotBlocked ==
    /\ (s_pc = "accept" /\ naccepted < MaxConns) => ENABLED Accept
    /\ \A c \in Conns :
        /\ (handler[c].st = "reading" /\ s_pc # "stopped")
            => ENABLED HandlerReads(c, "audio")
        /\ (handler[c].st = "transcribing" /\ s_pc # "stopped")
            => ENABLED HandlerTranscribes(c, TRUE)

\* the second connection was accepted and answered while the handler of the
\* first is still transcribing
C32_Witness ==
    /\ handler[1].st = "transcribing"
    /\ handler[2].st = "closed" /\ handler[2].resp = "text"
    /\ s_pc \in {"loop", "accept"}

\* ---------------------------------------------------------------- C33
ObjectRequests == {"no_audio_path", "missing_file", "audio"}

\* C33: a connection whose request was a JSON object is, once its handler is
\* no longer working on it, closed by the handler after a response was sent.
C33_ObjectRequestAnswered ==
    \A c \in Conns :
        handler[c].req \in ObjectRequests
            => \/ handler[c].st = "transcribing"
               \/ (handler[c].st = "closed" /\ handler[c].resp \in {"text", "error"})

\* ---------------------------------------------------------------- C34
\* C34: a key event starts a capture only when every capture launched before
\* has been told to stop; a key event stops a capture only when it is the one
\* launched last, is held and has not been told to stop before.
C34_StartStopAlternate ==
    /\ [][nsessions' # nsessions
          => (/\ nsessions' = nsessions + 1
              /\ last_cmd' = "Start"
              /\ stop_requested = 1..nsessions
              /\ ActiveCaptures = {})]_vars
    /\ [][(pc = "read" /\ pc' = "wait")
          => (/\ last_cmd' = "Stop"
              /\ recording_process = nsessions
              /\ proc_state[recording_process] # "unborn"
              /\ recording_process \notin stop_requested
              /\ stop_requested' = 1..nsessions)]_vars
    /\ [][(last_cmd' = "StartFailed" /\ HandledNow)
          => (ActiveCaptures = {} /\ stop_requested = 1..nsessions)]_vars

\* start, stop, start, stop
C34_Witness ==
    /\ nsessions = 2 /\ stop_requested = {1, 2}
    /\ last_cmd = "Stop" /\ pc = "wait" /\ recording_process = 2

\* ---------------------------------------------------------------- C35
\* C35: while main verifies the recording or runs speech-to-text, the capture
\* process of the session has exited.
C35_VerifyAfterCaptureExit ==
    pc \in {"verify", "stt"} => proc_state[recording_process] = "exited"

\* ---------------------------------------------------------------- C36
\* C36: the recording handed to speech-to-text for a session was not written
\* by the capture process of an earlier session.
C36_DispatchedAudioIsOwn ==
    pc = "stt" => ~(audio_file.by \in Sessions /\ audio_file.by < recording_process)

\* ---------------------------------------------------------------- C37
\* the server has shut down and left the client's connection unanswered
ShutDownInFlight == c_pc \in {"send", "recv"} /\ Peer \in {"dropped", "killed"}

\* C37: when the server has shut down with the client's request unanswered,
\* the client's socket call returns and the request is completed by the local
\* model, the result of the server attempt being None.
C37_ShutdownFallsBackToLocal ==
    ShutDownInFlight
        ~> (c_pc = "done" /\ c_out_from = "local" /\ c_server_result = "None")

\* the handler was discarded while it transcribed; the client read EOF
C37_Witness ==
    /\ s_pc = "stopped" /\ Peer = "killed" /\ handler[c_conn].req = "audio"
    /\ c_response.kind = "nodata"
    /\ c_pc = "done" /\ c_out_from = "local" /\ c_server_result = "None"

\* ---------------------------------------------------------------- C38
\* C38: whenever the first or the second server process is in its accept
\* loop, the socket file exists.
C38_SocketFileWhileServing ==
    (s_pc \in {"loop", "accept"} \/ second_pc = "serving") => socket_file

====
